---- MODULE Spec2Model ----
(***************************************************************************)
(* ConvoNerd (src/app.py): a Streamlit script that ingests uploaded PDFs   *)
(* into a FAISS index and answers questions through a                     *)
(* ConversationalRetrievalChain with a ConversationBufferMemory.           *)
(*                                                                         *)
(* One behaviour of the model is one browser session.  Every user          *)
(* interaction with a widget re-runs main() from the top; the position of  *)
(* the running script is pc.  Strings are sequences of tokens, so that     *)
(* concatenation is \o.  Python's None is the empty set and a present      *)
(* value x is {x}.                                                         *)
(***************************************************************************)
EXTENDS Integers, Sequences, FiniteSets, TLC

VARIABLES
    conversation,     \* st.session_state.conversation: None or the chain
    chat_history,     \* st.session_state.chat_history: None or a message list
    user_question,    \* value of the text_input widget
    pdf_docs,         \* value of the file_uploader widget (list of files)
    button,           \* st.button("Process") is True in this run
    uploaded_files,   \* content of the directory 'uploaded_files'
    pc,               \* position of the script run, "idle" between runs
    wi,               \* index of the file the loop of get_pdf_text writes next
    raw_text,         \* main: docs returned by get_pdf_text
    text_chunks,      \* main: chunks returned by get_text_chunks
    vectorstore,      \* main: index returned by get_vectorstore
    new_question,     \* chain: the standalone question given to the retriever
    context,          \* chain: the chunks retrieved for new_question
    answer,           \* chain: the generated answer
    qresult,          \* what the run did with the question
    presult,          \* what the run did with the Process click
    run_conv,         \* history: st.session_state.conversation when the run began
    used_index,       \* history: the index the retriever of this run searched
    answered_current, \* history: the submitted question already got a Turn
    answering,        \* history: number of chain calls in flight
    rebuilding        \* history: number of Process rebuilds in flight

vars == <<conversation, chat_history, user_question, pdf_docs, button,
          uploaded_files, pc, wi, raw_text, text_chunks, vectorstore,
          new_question, context, answer, qresult, presult, run_conv,
          used_index, answered_current, answering, rebuilding>>

-----------------------------------------------------------------------------
(* Bounds and input sets *)

MaxTurns == 2

None == {}
Some(x) == {x}
Get(o) == CHOOSE x \in o : TRUE

Empty == <<>>
Questions == {<<"q1">>, <<"q2">>}
Answers == {<<"a1">>, <<"I am sorry">>}
LangInstr == <<"Answer the question in German language.">>

FileA1 == [name |-> "a.pdf", text |-> <<"t1">>]
FileA2 == [name |-> "a.pdf", text |-> <<"t2", "t3">>]
FileB1 == [name |-> "b.pdf", text |-> <<"t4">>]
Batches == {<<>>, <<FileA1>>, <<FileB1>>, <<FileA1, FileB1>>, <<FileA1, FileA2>>}

-----------------------------------------------------------------------------
(* Pure parts of the program *)

RetrievalK == 2

Human(q) == [type |-> "human", content |-> q]
AI(a) == [type |-> "ai", content |-> a]

\* get_pdf_text, the removal loop: every file of the directory is removed.
DeleteOldFiles(dir) == {}

\* get_pdf_text, open(join('uploaded_files', name), 'wb'): a file of the same
\* name is overwritten.
WriteFile(dir, f) == {g \in dir : g.name # f.name} \cup {f}

\* PyPDFDirectoryLoader("uploaded_files").load(): one document per stored file.
LoadDocs(dir) == {[source |-> f.name, page_content |-> f.text] : f \in dir}

\* get_text_chunks: each document is split into its blocks, the source kept.
SplitDocuments(docs) ==
    UNION {{[source |-> d.source, page_content |-> d.page_content[i]] :
                i \in 1..Len(d.page_content)} : d \in docs}

\* get_vectorstore: FAISS.from_documents builds a new index over the chunks.
FromDocuments(chunks) == chunks

\* get_conversation_chain: a chain over the index with a new, empty memory.
get_conversation_chain(vs) == [index |-> vs, memory |-> <<>>]

\* The retriever returns min(k, size) chunks of the index.
Min(a, b) == IF a < b THEN a ELSE b
TopK(index, k) == {s \in SUBSET index : Cardinality(s) = Min(k, Cardinality(index))}

\* The chain reads its memory's chat_history; the 'chat_history' key that
\* handle_userinput passes is overridden by the memory variable.
ChainHistory(passed, memory) == memory

\* What the language model may return for the condense prompt custom_template:
\* any rewriting, with or without the sentence the prompt asks it to add.
CondenseOutputs(q) == {q, q \o LangInstr, <<"rephrased">> \o LangInstr}

\* The chain condenses with the language model only when the history is not
\* empty; otherwise the question goes to the retriever as it is.
CondenseQuestion(q, hist, llm) == IF hist = <<>> THEN q ELSE llm

\* Variant: the answer is recorded before the question.
SaveContext_AnswerFirst(mem, q, a) == mem \o <<AI(a), Human(q)>>

\* memory.save_context: the question and the answer are appended.
SaveContext(mem, q, a) == mem \o <<Human(q), AI(a)>>

\* handle_userinput, the rendering loop: even index user bubble, odd index bot.
Bubbles(hist) ==
    [i \in 1..Len(hist) |->
        [template |-> IF (i - 1) % 2 = 0 THEN "user" ELSE "bot",
         msg |-> hist[i].content]]

-----------------------------------------------------------------------------
(* Control flow of main *)

AnsweringStages == {"condense", "retrieve", "generate", "save"}
ProcessStages == {"delete", "write", "load", "chunk", "index", "chain"}

\* Variant: the sidebar with the button is handled before the question.
MainOrder_SidebarFirst == <<"sidebar", "question">>

\* main handles the question first and the sidebar with the button after it.
MainOrder == <<"question", "sidebar">>

NextSection(s) ==
    IF \E i \in 1..(Len(MainOrder) - 1) : MainOrder[i] = s
    THEN MainOrder[(CHOOSE i \in 1..(Len(MainOrder) - 1) : MainOrder[i] = s) + 1]
    ELSE "idle"

\* Variant: the question is handled without testing the conversation.
InputBranch_AskAlways(q, conv) == IF q # Empty THEN "ask" ELSE "skip"

\* if user_question and conversation: ... elif user_question and not conversation: ...
InputBranch(q, conv) ==
    IF q # Empty /\ conv # None THEN "ask"
    ELSE IF q # Empty /\ conv = None THEN "reject"
    ELSE "skip"

\* if st.button("Process"): if pdf_docs: ... else: st.warning(...)
ButtonBranch(clicked, docs) ==
    IF clicked /\ docs # <<>> THEN "process"
    ELSE IF clicked THEN "warn"
    ELSE "skip"

\* Variant: the question is recorded when the call starts, the answer at the end.
MemoryAt_QuestionFirst(stage, mem, q, a) ==
    IF stage = "condense" THEN mem \o <<Human(q)>>
    ELSE IF stage = "save" THEN mem \o <<AI(a)>>
    ELSE mem

\* The memory of the chain after the stage of the chain call has run.
MemoryAt(stage, mem, q, a) ==
    IF stage = "save" THEN SaveContext(mem, q, a) ELSE mem

\* Variant: the session gets its chain as soon as the index is built, before
\* the language model of the chain is loaded.
ConversationAt_Early(stage, conv, vs) ==
    IF stage \in {"index", "chain"} THEN Some(get_conversation_chain(vs)) ELSE conv

\* st.session_state.conversation after a stage of the Process branch has run.
ConversationAt(stage, conv, vs) ==
    IF stage = "chain" THEN Some(get_conversation_chain(vs)) ELSE conv

\* Variant: a run starts at once on an interaction, whatever the script is doing.
ScriptIdle_Always(p) == TRUE

\* The script runs once per interaction, one run at a time for a session.
ScriptIdle(p) == p = "idle"

-----------------------------------------------------------------------------
(* State machine *)

Init ==
    /\ conversation = None
    /\ chat_history = None
    /\ user_question = Empty
    /\ pdf_docs = <<>>
    /\ button = FALSE
    /\ uploaded_files = {}
    /\ pc = "idle"
    /\ wi = 1
    /\ raw_text = {}
    /\ text_chunks = {}
    /\ vectorstore = {}
    /\ new_question = Empty
    /\ context = {}
    /\ answer = Empty
    /\ qresult = "none"
    /\ presult = "none"
    /\ run_conv = None
    /\ used_index = {}
    /\ answered_current = FALSE
    /\ answering = 0
    /\ rebuilding = 0

\* A run begins: main's locals are fresh, the session state is kept.
BeginRun(q) ==
    /\ ScriptIdle(pc)
    /\ (q # Empty /\ conversation # None)
          => Len(Get(conversation).memory) < 2 * MaxTurns
    /\ pc' = MainOrder[1]
    /\ wi' = 1
    /\ raw_text' = {}
    /\ text_chunks' = {}
    /\ vectorstore' = {}
    /\ new_question' = Empty
    /\ context' = {}
    /\ answer' = Empty
    /\ qresult' = "none"
    /\ presult' = "none"
    /\ run_conv' = conversation
    /\ used_index' = {}
    /\ UNCHANGED <<conversation, chat_history, uploaded_files, answering, rebuilding>>

\* The user enters a new text in the text_input (or clears it).
SubmitQuestion ==
    \E q \in Questions \cup {Empty} :
        /\ q # user_question
        /\ BeginRun(q)
        /\ user_question' = q
        /\ button' = FALSE
        /\ answered_current' = FALSE
        /\ UNCHANGED pdf_docs

\* The user changes the files of the file_uploader.
UploadFiles ==
    \E b \in Batches :
        /\ b # pdf_docs
        /\ BeginRun(user_question)
        /\ pdf_docs' = b
        /\ button' = FALSE
        /\ UNCHANGED <<user_question, answered_current>>

\* The user clicks "Process".
ClickProcess ==
    /\ BeginRun(user_question)
    /\ button' = TRUE
    /\ UNCHANGED <<user_question, pdf_docs, answered_current>>

\* main, the branch on user_question.
QuestionBranch ==
    /\ pc = "question"
    /\ LET br == InputBranch(user_question, conversation) IN
        /\ pc' = IF br = "ask" THEN "condense" ELSE NextSection("question")
        /\ qresult' = IF br = "reject" THEN "rejected" ELSE qresult
        /\ answering' = IF br = "ask" THEN answering + 1 ELSE answering
    /\ UNCHANGED <<conversation, chat_history, user_question, pdf_docs, button,
                   uploaded_files, wi, raw_text, text_chunks, vectorstore,
                   new_question, context, answer, presult, run_conv, used_index,
                   answered_current, rebuilding>>

\* The chain call of handle_userinput: the question generator.
Condense ==
    /\ pc = "condense"
    /\ \E llm \in CondenseOutputs(user_question) :
          new_question' =
              CondenseQuestion(user_question,
                               ChainHistory(chat_history, Get(conversation).memory),
                               llm)
    /\ conversation' = Some([Get(conversation) EXCEPT
                               !.memory = MemoryAt(pc, @, user_question, answer)])
    /\ pc' = "retrieve"
    /\ UNCHANGED <<chat_history, user_question, pdf_docs, button, uploaded_files,
                   wi, raw_text, text_chunks, vectorstore, context, answer,
                   qresult, presult, run_conv, used_index, answered_current,
                   answering, rebuilding>>

\* The chain call: the retriever over the chain's index.
Retrieve ==
    /\ pc = "retrieve"
    /\ context' \in TopK(Get(conversation).index, RetrievalK)
    /\ used_index' = Get(conversation).index
    /\ conversation' = Some([Get(conversation) EXCEPT
                               !.memory = MemoryAt(pc, @, user_question, answer)])
    /\ pc' = "generate"
    /\ UNCHANGED <<chat_history, user_question, pdf_docs, button, uploaded_files,
                   wi, raw_text, text_chunks, vectorstore, new_question, answer,
                   qresult, presult, run_conv, answered_current, answering,
                   rebuilding>>

\* The chain call: the language model answers from the context.
Generate ==
    /\ pc = "generate"
    /\ answer' \in Answers
    /\ conversation' = Some([Get(conversation) EXCEPT
                               !.memory = MemoryAt(pc, @, user_question, answer)])
    /\ pc' = "save"
    /\ UNCHANGED <<chat_history, user_question, pdf_docs, button, uploaded_files,
                   wi, raw_text, text_chunks, vectorstore, new_question, context,
                   qresult, presult, run_conv, used_index, answered_current,
                   answering, rebuilding>>

\* The chain call returns: the memory saves the turn, response['chat_history']
\* is the memory's message list, and handle_userinput stores it in the session.
Save ==
    /\ pc = "save"
    /\ LET mem == MemoryAt(pc, Get(conversation).memory, user_question, answer) IN
        /\ conversation' = Some([Get(conversation) EXCEPT !.memory = mem])
        /\ chat_history' = Some(mem)
    /\ qresult' = "answered"
    /\ answered_current' = TRUE
    /\ answering' = answering - 1
    /\ pc' = "render"
    /\ UNCHANGED <<user_question, pdf_docs, button, uploaded_files, wi, raw_text,
                   text_chunks, vectorstore, new_question, context, answer,
                   presult, run_conv, used_index, rebuilding>>

\* handle_userinput writes the bubbles and returns to main.
Render ==
    /\ pc = "render"
    /\ pc' = NextSection("question")
    /\ UNCHANGED <<conversation, chat_history, user_question, pdf_docs, button,
                   uploaded_files, wi, raw_text, text_chunks, vectorstore,
                   new_question, context, answer, qresult, presult, run_conv,
                   used_index, answered_current, answering, rebuilding>>

\* main, the sidebar: the branch on the button and the uploaded files.
SidebarBranch ==
    /\ pc = "sidebar"
    /\ LET br == ButtonBranch(button, pdf_docs) IN
        /\ pc' = IF br = "process" THEN "delete" ELSE NextSection("sidebar")
        /\ presult' = IF br = "warn" THEN "warning" ELSE presult
        /\ rebuilding' = IF br = "process" THEN rebuilding + 1 ELSE rebuilding
    /\ UNCHANGED <<conversation, chat_history, user_question, pdf_docs, button,
                   uploaded_files, wi, raw_text, text_chunks, vectorstore,
                   new_question, context, answer, qresult, run_conv, used_index,
                   answered_current, answering>>

\* One stage of the Process branch; the session's conversation is assigned
\* from the result of the last one.
ProcessStage(next, dir, w, docs, chunks, vs) ==
    /\ uploaded_files' = dir
    /\ wi' = w
    /\ raw_text' = docs
    /\ text_chunks' = chunks
    /\ vectorstore' = vs
    /\ conversation' = ConversationAt(pc, conversation, vs)
    /\ pc' = next
    /\ presult' = IF pc = "chain" THEN "processed" ELSE presult
    /\ rebuilding' = IF pc = "chain" THEN rebuilding - 1 ELSE rebuilding
    /\ UNCHANGED <<chat_history, user_question, pdf_docs, button, new_question,
                   context, answer, qresult, run_conv, used_index,
                   answered_current, answering>>

\* get_pdf_text: delete old files.
DeleteOld ==
    /\ pc = "delete"
    /\ ProcessStage("write", DeleteOldFiles(uploaded_files), 1, raw_text,
                    text_chunks, vectorstore)

\* get_pdf_text: write the next uploaded file.
WriteNext ==
    /\ pc = "write"
    /\ wi <= Len(pdf_docs)
    /\ ProcessStage(IF wi = Len(pdf_docs) THEN "load" ELSE "write",
                    WriteFile(uploaded_files, pdf_docs[wi]), wi + 1, raw_text,
                    text_chunks, vectorstore)

\* get_pdf_text: load the pdfs.
Load ==
    /\ pc = "load"
    /\ ProcessStage("chunk", uploaded_files, wi, LoadDocs(uploaded_files),
                    text_chunks, vectorstore)

\* get_text_chunks.
Chunk ==
    /\ pc = "chunk"
    /\ ProcessStage("index", uploaded_files, wi, raw_text,
                    SplitDocuments(raw_text), vectorstore)

\* get_vectorstore.
BuildIndex ==
    /\ pc = "index"
    /\ ProcessStage("chain", uploaded_files, wi, raw_text, text_chunks,
                    FromDocuments(text_chunks))

\* get_conversation_chain and the assignment to st.session_state.conversation.
BuildChain ==
    /\ pc = "chain"
    /\ ProcessStage(NextSection("sidebar"), uploaded_files, wi, raw_text,
                    text_chunks, vectorstore)

\* A stage raises (file system, model loading, inference), or the run is
\* stopped at one of its st.* calls because of a new interaction: main has no
\* handler, the run ends where it is and the session state stays as it was.
Abort ==
    /\ pc \in (AnsweringStages \ {"save"}) \cup ProcessStages \cup {"render"}
    /\ pc' = "idle"
    /\ qresult' = IF pc \in AnsweringStages THEN "failed" ELSE qresult
    /\ presult' = IF pc \in ProcessStages THEN "failed" ELSE presult
    /\ answering' = IF pc \in AnsweringStages THEN answering - 1 ELSE answering
    /\ rebuilding' = IF pc \in ProcessStages THEN rebuilding - 1 ELSE rebuilding
    /\ UNCHANGED <<conversation, chat_history, user_question, pdf_docs, button,
                   uploaded_files, wi, raw_text, text_chunks, vectorstore,
                   new_question, context, answer, run_conv, used_index,
                   answered_current>>

Next ==
    \/ SubmitQuestion
    \/ UploadFiles
    \/ ClickProcess
    \/ QuestionBranch
    \/ Condense
    \/ Retrieve
    \/ Generate
    \/ Save
    \/ Render
    \/ SidebarBranch
    \/ DeleteOld
    \/ WriteNext
    \/ Load
    \/ Chunk
    \/ BuildIndex
    \/ BuildChain
    \/ Abort

Spec == Init /\ [][Next]_vars

-----------------------------------------------------------------------------
(* Properties *)

\* The documents of an uploaded batch, as the loader would read each of them.
BatchDocs(batch) ==
    {[source |-> batch[i].name, page_content |-> batch[i].text] :
        i \in 1..Len(batch)}

IdleQuestionStep ==
    (pc = "question" /\ user_question # Empty /\ conversation = None)
        => /\ qresult' = "rejected"
           /\ pc' \notin AnsweringStages
           /\ answering' = answering
           /\ conversation' = None
           /\ chat_history' = chat_history
           /\ uploaded_files' = uploaded_files
           /\ <<new_question, context, answer>>' = <<new_question, context, answer>>

\* C1: a question met while st.session_state.conversation is None is answered
\* with the 'upload first' error and nothing else: no stage of the chain runs,
\* the conversation stays None, chat_history, the stored files and the
\* chain's results are unchanged.
C1_IdleQuestionRejected == [][IdleQuestionStep]_vars

C1_Witness ==
    /\ qresult = "rejected"
    /\ user_question # Empty
    /\ pc = "sidebar"
    /\ conversation = None
    /\ chat_history = None

\* C2: once a Process has succeeded the session's chat history holds no Turn
\* (it is unset or empty) and the chain's history, which the next query
\* reads, is empty.
C2_ProcessResetsChatHistory ==
    presult = "processed"
        => /\ chat_history = None \/ chat_history = Some(<<>>)
           /\ Get(conversation).memory = <<>>

QueryStep ==
    /\ (pc = "condense" => pc' \in {"retrieve", "idle"})
    /\ (pc = "retrieve" => pc' \in {"generate", "idle"})
    /\ (pc = "generate" => pc' \in {"save", "idle"})
    /\ (pc = "save" /\ qresult' = "answered")
         => /\ Get(conversation').memory =
                 Get(conversation).memory \o <<Human(user_question), AI(answer)>>
            /\ chat_history' = Some(Get(conversation').memory)
            /\ ~answered_current

\* C3: the stages of a query run in the order condense, retrieve, generate;
\* the query appends exactly its (question, answer) Turn after the earlier
\* ones; and a Turn is appended only for a submitted question that has not
\* got one yet.
C3_OneTurnPerQuestion == [][QueryStep]_vars

ProcessAtomicStep ==
    pc \in ProcessStages
        => /\ chat_history' = chat_history
           /\ (presult' = "failed" => conversation' = conversation)
           /\ conversation' # conversation
                => /\ pc = "chain"
                   /\ presult' = "processed"
                   /\ wi = Len(pdf_docs) + 1
                   /\ \A i \in 1..Len(pdf_docs) :
                         \E f \in uploaded_files : f.name = pdf_docs[i].name
                   /\ conversation' =
                        Some([index |-> SplitDocuments(LoadDocs(uploaded_files)),
                              memory |-> <<>>])

\* C4: during a Process the session's chat history is not touched and the
\* session's conversation is replaced only by the last step, after every
\* uploaded file was stored, loaded, chunked and indexed, with a chain over
\* that index and an empty memory; a Process that fails leaves the conversation
\* as it was.
C4_ProcessAtomic == [][ProcessAtomicStep]_vars

C4_Witness ==
    /\ presult = "failed"
    /\ pc = "idle"
    /\ conversation # None
    /\ Get(conversation).memory # <<>>
    /\ SplitDocuments(LoadDocs(uploaded_files)) # Get(conversation).index

FailedQueryStep ==
    pc \in {"condense", "retrieve", "generate"}
        => /\ chat_history' = chat_history
           /\ conversation' = conversation
           /\ (qresult' = "failed" => (pc' = "idle" /\ conversation' # None))

\* C5: no step of condensing, retrieval or generation changes the chat history
\* or the conversation (index and memory), and a query that fails in one of
\* them ends the run with the session Ready on the same index.
C5_FailedQueryKeepsHistory == [][FailedQueryStep]_vars

C5_Witness ==
    /\ qresult = "failed"
    /\ pc = "idle"
    /\ context # {}
    /\ chat_history # None
    /\ Get(chat_history) = Get(conversation).memory
    /\ Len(Get(chat_history)) = 2

C7_IndexIsLatestBatch ==
    presult = "processed"
        => Get(conversation).index = SplitDocuments(BatchDocs(pdf_docs))

\* C8: with an empty history the question given to the retriever is the input
\* question followed by the answer-language instruction.
C8_EmptyHistoryCondense ==
    (pc = "retrieve" /\ Get(conversation).memory = <<>>)
        => new_question = user_question \o LangInstr

\* C9: in a run with a question and a Process click the rebuild starts only
\* after the question was handled, and the question was handled against the
\* conversation the run began with: answered on its index, or rejected when
\* there was none.
C9_QuestionBeforeProcess ==
    (button /\ user_question # Empty)
        => /\ ((pc \in ProcessStages \/ presult # "none")
                => qresult \in {"answered", "rejected"})
           /\ (qresult = "answered"
                => (run_conv # None /\ used_index = Get(run_conv).index))
           /\ (qresult = "rejected" => run_conv = None)

C9_Witness ==
    /\ button
    /\ user_question # Empty
    /\ presult = "processed"
    /\ qresult = "answered"
    /\ used_index # Get(conversation).index

\* C10: chat_history is unset, or has even length with every even-indexed
\* message (counting from 0) a question and every odd-indexed one an answer,
\* so that the bubbles of the rendering loop carry the right template.
C10_HistoryAlternates ==
    chat_history # None
        => LET h == Get(chat_history) IN
            /\ Len(h) % 2 = 0
            /\ \A i \in 1..Len(h) :
                  /\ h[i].type = (IF (i - 1) % 2 = 0 THEN "human" ELSE "ai")
                  /\ (Bubbles(h)[i].template = "user") <=> (h[i].type = "human")

C10_Witness ==
    /\ chat_history # None
    /\ Len(Get(chat_history)) = 4
    /\ Get(conversation).memory = <<>>
    /\ qresult = "failed"

====
